---------------------------- MODULE Spec2Model ----------------------------
(***************************************************************************)
(* A model of the CoinGecko category dashboard                             *)
(* (src/pages/1_..._CoinGecko_Categories.py): the two cached fetch         *)
(* functions, the category search, safe_metrics, safe_treemap and the      *)
(* histogram / scatter blocks of main().                                   *)
(*                                                                         *)
(* Text is a sequence of one-character strings.  A cell of a market record *)
(* is absent (the key is not in the JSON object), null (JSON null) or a    *)
(* number.  pandas builds a column for every key that occurs in at least   *)
(* one record and fills the holes with NaN; a null is a missing value too  *)
(* (NaN in a numeric column, None in an all-None object column: sum() is 0,*)
(* mean() is NaN, notna() is False and "> 0" is False for both).           *)
(***************************************************************************)
EXTENDS Integers, Sequences, FiniteSets, TLC

VARIABLES
    pc,                  \* position of the running script
    cache,               \* st.cache_data: key -> entry
    served,              \* the API side: key -> age and body of its last answer
    net,                 \* the network requests issued by the last fetch call
    calls,               \* the functions main() has called in this run
    search_term,         \* the lower-cased text of the search box
    categories,          \* what fetch_categories() returned
    filtered_categories, \* the rows of categories_df that match the search
    selected_category,   \* the name chosen in the select box
    selected_id,         \* its category_id
    category_data,       \* what fetch_category_data() returned
    df,                  \* pd.DataFrame(category_data)
    metrics,             \* the summary shown in the four tiles
    fig_treemap,         \* what safe_treemap returned
    px_data,             \* the rows handed to each plotly express builder
    rendered,            \* the elements displayed in this run
    warnings,            \* st.warning messages of this run
    errors               \* st.error messages of this run

vars == <<pc, cache, served, net, calls, search_term, categories,
          filtered_categories, selected_category, selected_id, category_data,
          df, metrics, fig_treemap, px_data, rendered, warnings, errors>>

----------------------------------------------------------------------------
(* Bounds of the model.                                                    *)

MaxLen == 2          \* records in an enumerated market table
MaxTermLen == 3      \* characters in an enumerated search text
MaxCatalog == 2      \* categories in an enumerated catalog

----------------------------------------------------------------------------
(* Text.                                                                   *)

UpperCase == <<"A","B","C","D","E","F","G","H","I","J","K","L","M",
               "N","O","P","Q","R","S","T","U","V","W","X","Y","Z">>
LowerCase == <<"a","b","c","d","e","f","g","h","i","j","k","l","m",
               "n","o","p","q","r","s","t","u","v","w","x","y","z">>

\* str.lower() on one character
LowerChar(c) ==
    IF \E i \in 1..26 : UpperCase[i] = c
    THEN LowerCase[CHOOSE i \in 1..26 : UpperCase[i] = c]
    ELSE c

\* str.lower()
Lower(s) == [i \in 1..Len(s) |-> LowerChar(s[i])]

\* re.compile(pat) succeeds.  Of the metacharacters only "." and "(" occur
\* in the search texts of this model; a "(" is never closed there.
RegexCompiles(pat) == \A k \in 1..Len(pat) : pat[k] # "("

\* re.search(pat, s) finds a match: "." stands for any character
RegexSearch(pat, s) ==
    \E start \in 0..(Len(s) - Len(pat)) :
        \A k \in 1..Len(pat) : pat[k] = "." \/ pat[k] = s[start + k]

\* All sequences over S of length at most n
SeqUpTo(S, n) == UNION {[1..k -> S] : k \in 0..n}

----------------------------------------------------------------------------
(* Market records and tables.                                              *)

Absent == [kind |-> "absent", val |-> 0]
Null == [kind |-> "null", val |-> 0]
Num(n) == [kind |-> "num", val |-> n]

Fields == {"market_cap", "total_volume", "price_change_percentage_24h"}

Rec(mc, vol, chg) ==
    [market_cap |-> mc, total_volume |-> vol,
     price_change_percentage_24h |-> chg]

CapCells == {Absent, Null, Num(0), Num(100)}
VolCells == {Absent, Null, Num(0), Num(50)}
ChgCells == {Absent, Null, Num(-4), Num(10)}

Records == {Rec(mc, vol, chg) : mc \in CapCells, vol \in VolCells, chg \in ChgCells}

\* The worked examples of the specification, with every field spelled out
ScatterExample ==
    <<Rec(Num(100), Num(50), Num(10)),
      Rec(Null, Num(10), Null),
      Rec(Num(0), Num(5), Num(-4))>>
MeanExample ==
    <<Rec(Num(100), Num(50), Num(10)),
      Rec(Num(100), Num(50), Null),
      Rec(Num(100), Num(50), Num(-4))>>
\* the same example, the records carrying the one field the spec writes
MeanExampleBare ==
    <<Rec(Absent, Absent, Num(10)),
      Rec(Absent, Absent, Null),
      Rec(Absent, Absent, Num(-4))>>
NullCapsExample ==
    <<Rec(Null, Num(50), Num(10)),
      Rec(Null, Num(0), Num(-4)),
      Rec(Null, Null, Null)>>

Examples == {ScatterExample, MeanExample, MeanExampleBare, NullCapsExample}

Tables == SeqUpTo(Records, MaxLen) \cup Examples

\* the tables of the render model: one 24h change is as good as another to
\* the chart builders, which only ask whether it is there
RenderRecords ==
    {Rec(mc, vol, chg) : mc \in CapCells, vol \in VolCells,
                         chg \in {Absent, Null, Num(10)}}
RenderTables == (SeqUpTo(RenderRecords, MaxLen) \cup Examples) \ {<<>>}

----------------------------------------------------------------------------
(* pandas.                                                                 *)

\* df has the column: some record carries the key
HasColumn(t, f) == \E i \in 1..Len(t) : t[i][f].kind # "absent"

\* Series.notna() at row r
NotNa(r, f) == r[f].kind = "num"

\* df.empty
Empty(t) == Len(t) = 0

\* Series.sum(): missing values skipped, 0 when nothing is left
RECURSIVE ColSum(_, _)
ColSum(t, f) ==
    IF t = <<>> THEN 0
    ELSE (IF NotNa(Head(t), f) THEN Head(t)[f].val ELSE 0) + ColSum(Tail(t), f)

\* Series.count(): the number of present values
RECURSIVE ColCount(_, _)
ColCount(t, f) ==
    IF t = <<>> THEN 0
    ELSE (IF NotNa(Head(t), f) THEN 1 ELSE 0) + ColCount(Tail(t), f)

\* Numbers of a summary: an exact fraction in lowest terms, or NaN
NaN == [nan |-> TRUE, num |-> 0, den |-> 1]

Abs(n) == IF n < 0 THEN -n ELSE n

RECURSIVE Gcd(_, _)
Gcd(a, b) == IF b = 0 THEN a ELSE Gcd(b, a % b)

Frac(n, d) ==
    LET g == Gcd(Abs(n), d)
    IN  [nan |-> FALSE, num |-> n \div g, den |-> d \div g]

Whole(n) == [nan |-> FALSE, num |-> n, den |-> 1]

\* pd.isna on a scalar
IsNa(v) == v.nan


----------------------------------------------------------------------------
(* safe_metrics.                                                           *)

\* a slip: df['market_cap'].count() for len(df)
TotalTokens_count(t) == ColCount(t, "market_cap")

\* len(df)
TotalTokens(t) == Len(t)

\* a slip: the sum divided by the number of rows
Mean_rows(t, f) ==
    IF Len(t) = 0 THEN NaN ELSE Frac(ColSum(t, f), Len(t))

\* Series.mean(): over the present values, NaN when there is none
Mean(t, f) ==
    IF ColCount(t, f) = 0 THEN NaN ELSE Frac(ColSum(t, f), ColCount(t, f))

\* a slip: the NaN coercion left out
NanToZero_kept(v) == v

\* 0 if pd.isna(v) else v
NanToZero(v) == IF IsNa(v) THEN Whole(0) ELSE v

ZeroSummary ==
    [total_tokens |-> Whole(0), total_market_cap |-> Whole(0),
     total_volume |-> Whole(0), avg_24h_change |-> Whole(0)]

\* df['market_cap'], df['total_volume'] or df['price_change_percentage_24h']
\* raises KeyError: the table has no such column
MetricsRaises(t) == \E f \in Fields : ~HasColumn(t, f)

W_Metrics == "Error calculating metrics"

\* The try block, and the except block that replaces any failure of it
safe_metrics(t) ==
    IF MetricsRaises(t)
    THEN [summary |-> ZeroSummary, warning |-> {W_Metrics}]
    ELSE [summary |->
            [total_tokens |-> NanToZero(Whole(TotalTokens(t))),
             total_market_cap |-> NanToZero(Whole(ColSum(t, "market_cap"))),
             total_volume |-> NanToZero(Whole(ColSum(t, "total_volume"))),
             avg_24h_change |->
                 NanToZero(Mean(t, "price_change_percentage_24h"))],
          warning |-> {}]

----------------------------------------------------------------------------
(* The chart builders.                                                     *)

\* df['market_cap'].notna() & (df['market_cap'] > 0)
TreemapMask(r) == NotNa(r, "market_cap") /\ r.market_cap.val > 0

\* a slip: the volume test left out of the mask
ScatterMask_novolume(r) == NotNa(r, "market_cap") /\ r.market_cap.val > 0

\* the four-way mask of the scatter block
ScatterMask(r) ==
    /\ NotNa(r, "market_cap")
    /\ NotNa(r, "total_volume")
    /\ r.market_cap.val > 0
    /\ r.total_volume.val > 0

\* df['price_change_percentage_24h'].notna()
HistMask(r) == NotNa(r, "price_change_percentage_24h")

NoCall == [called |-> FALSE, data |-> <<>>]
Call(rows) == [called |-> TRUE, data |-> rows]

W_TreemapNoData == "No valid market cap data available for treemap visualization."
W_TreemapFailed == "Could not create treemap visualization"
W_HistFailed == "Could not create price change distribution chart."
W_ScatterNoData == "Insufficient data for volume vs market cap visualization."
W_ScatterFailed == "Could not create volume vs market cap chart."

\* safe_treemap: the figure (or None), the rows handed to px.treemap and the
\* warning.  px.treemap raises ValueError when a column it is told to use
\* (custom_data, color) is not in the frame.
safe_treemap(t) ==
    IF ~HasColumn(t, "market_cap")
    THEN [fig |-> FALSE, px |-> NoCall, warning |-> {W_TreemapFailed}]
    ELSE LET df_filtered == SelectSeq(t, TreemapMask)
         IN  IF Empty(df_filtered)
             THEN [fig |-> FALSE, px |-> NoCall, warning |-> {W_TreemapNoData}]
             ELSE IF ~HasColumn(t, "total_volume")
                     \/ ~HasColumn(t, "price_change_percentage_24h")
                  THEN [fig |-> FALSE, px |-> Call(df_filtered),
                        warning |-> {W_TreemapFailed}]
                  ELSE [fig |-> TRUE, px |-> Call(df_filtered), warning |-> {}]


----------------------------------------------------------------------------
(* The API and st.cache_data.                                              *)

Failure == [ok |-> FALSE, body |-> <<>>]     \* the fetch returned None
Ok(b) == [ok |-> TRUE, body |-> b]           \* the fetch returned the JSON list

\* "if not categories", "if category_data": None and [] are both falsy
Truthy(resp) == resp.ok /\ resp.body # <<>>

DeFi == [category_id |-> "decentralized-finance-defi",
         name |-> <<"D","e","F","i">>]
NftIndex == [category_id |-> "nft-index",
             name |-> <<"N","F","T"," ","I","n","d","e","x">>]
Dotted == [category_id |-> "web3", name |-> <<"W","e","b","3",".","0">>]

Categories == {DeFi, NftIndex, Dotted}
CategoryIds == {c.category_id : c \in Categories}

\* what GET /coins/categories/list may answer in the page model
Catalog == <<DeFi, NftIndex>>
CatalogResponses == {Failure, Ok(<<>>), Ok(Catalog)}

\* what GET /coins/markets may answer in the page model
MarketResponses == {Failure, Ok(<<>>), Ok(ScatterExample)}

\* the text typed into the search box in the page model
SearchInputs == {<<>>, <<"N","F","T">>, <<".">>, <<"(">>, <<"z">>}

\* the seconds that pass between two steps
TickSteps == {200, 3400}

CategoriesTtl == 3600      \* @st.cache_data(ttl=3600)
DataTtl == 300             \* @st.cache_data(ttl=300)

CategoriesKey == "fetch_categories"
Keys == {CategoriesKey} \cup CategoryIds
Ttl(key) == IF key = CategoriesKey THEN CategoriesTtl ELSE DataTtl

NoEntry == [present |-> FALSE, age |-> 0, val |-> Failure]
Entry(v) == [present |-> TRUE, age |-> 0, val |-> v]

\* a slip: no expiry
Fresh_forever(e, ttl) == e.present

\* an entry is served while it is younger than the function's ttl
Fresh(e, ttl) == e.present /\ e.age < ttl

\* a slip: only a successful answer is kept
Store_success(v) == IF v.ok THEN Entry(v) ELSE NoEntry

\* what the decorator stores for a value the function returned: any return
\* value, None included, is an ordinary value to cache
Store(v) == Entry(v)

\* the requests one execution of the function body makes for an answer
Requests(key, answer) == <<key>>

\* One call of a cached function: the entry if it is fresh, else the body
\* runs, asks the API once, and its return value is stored.
CachedCall(key, answer) ==
    IF Fresh(cache[key], Ttl(key))
    THEN [val |-> cache[key].val, requests |-> <<>>, entry |-> cache[key]]
    ELSE [val |-> answer, requests |-> Requests(key, answer),
          entry |-> Store(answer)]

Min(a, b) == IF a < b THEN a ELSE b

\* d seconds later
Older(e, d, ttl) == IF e.present THEN [e EXCEPT !.age = Min(e.age + d, ttl)] ELSE e

\* the API's own record of a request it answered
Serve(key, r) ==
    IF r.requests = <<>> THEN served
    ELSE [served EXCEPT ![key] = Entry(r.val)]

E_Categories == "Error fetching categories"
E_NoCategories == "Failed to fetch categories. Please try again later."
E_Data == "Error fetching category data"
W_NoMatch == "No categories found matching your search."

----------------------------------------------------------------------------
(* main().                                                                 *)

NoPx == [treemap |-> NoCall, histogram |-> NoCall, scatter |-> NoCall]

\* the state a script run starts from
FreshRun ==
    /\ calls = {}
    /\ search_term = <<>>
    /\ categories = Failure
    /\ filtered_categories = <<>>
    /\ selected_category = <<>>
    /\ selected_id = ""
    /\ category_data = Failure
    /\ df = <<>>
    /\ metrics = ZeroSummary
    /\ fig_treemap = FALSE
    /\ px_data = NoPx
    /\ rendered = {}
    /\ warnings = {}
    /\ errors = {}

Init ==
    /\ pc = "idle"
    /\ cache = [k \in Keys |-> NoEntry]
    /\ served = [k \in Keys |-> NoEntry]
    /\ net = <<>>
    /\ FreshRun

\* A widget interaction (or the first load) runs the script from the top.
StartRun ==
    /\ pc \in {"idle", "done", "crashed"}
    /\ \E text \in SearchInputs : search_term' = Lower(text)
    /\ pc' = "fetch_categories"
    /\ calls' = {}
    /\ categories' = Failure
    /\ filtered_categories' = <<>>
    /\ selected_category' = <<>>
    /\ selected_id' = ""
    /\ category_data' = Failure
    /\ df' = <<>>
    /\ metrics' = ZeroSummary
    /\ fig_treemap' = FALSE
    /\ px_data' = NoPx
    /\ rendered' = {}
    /\ warnings' = {}
    /\ errors' = {}
    /\ UNCHANGED <<cache, served, net>>

\* categories = fetch_categories(); if not categories: st.error; return
FetchCategories ==
    /\ pc = "fetch_categories"
    /\ \E answer \in CatalogResponses :
         LET r == CachedCall(CategoriesKey, answer)
         IN  /\ cache' = [cache EXCEPT ![CategoriesKey] = r.entry]
             /\ served' = Serve(CategoriesKey, r)
             /\ net' = r.requests
             /\ categories' = r.val
             /\ errors' = errors
                    \cup (IF r.val.ok THEN {} ELSE {E_Categories})
                    \cup (IF Truthy(r.val) THEN {} ELSE {E_NoCategories})
             /\ pc' = IF Truthy(r.val) THEN "filter" ELSE "done"
    /\ calls' = calls \cup {"fetch_categories"}
    /\ UNCHANGED <<search_term, filtered_categories, selected_category,
                   selected_id, category_data, df, metrics, fig_treemap,
                   px_data, rendered, warnings>>

\* Series.str.lower().str.contains(search_term): the term is a regular
\* expression (regex=True is the default), searched in the lower-cased name
Matches(term, c) == RegexSearch(term, Lower(c.name))

\* categories_df[mask]
FilterCategories(term, cats) == SelectSeq(cats, LAMBDA c : Matches(term, c))

\* filtered[filtered['name'] == selected]['category_id'].iloc[0]
IdOf(filtered, name) ==
    filtered[CHOOSE i \in 1..Len(filtered) :
                /\ filtered[i].name = name
                /\ \A j \in 1..(i - 1) : filtered[j].name # name].category_id

\* The sidebar block: filter the catalog, offer the matches, resolve the
\* selection; re.error escapes main() when the term does not compile.
Sidebar ==
    /\ pc = "filter"
    /\ IF ~RegexCompiles(search_term)
       THEN /\ pc' = "crashed"
            /\ UNCHANGED <<filtered_categories, selected_category,
                           selected_id, warnings>>
       ELSE LET filtered == FilterCategories(search_term, categories.body)
            IN  /\ filtered_categories' = filtered
                /\ IF Empty(filtered)
                   THEN /\ warnings' = warnings \cup {W_NoMatch}
                        /\ pc' = "done"
                        /\ UNCHANGED <<selected_category, selected_id>>
                   ELSE /\ \E i \in 1..Len(filtered) :
                             /\ selected_category' = filtered[i].name
                             /\ selected_id' = IdOf(filtered, filtered[i].name)
                        /\ pc' = "fetch_category_data"
                        /\ UNCHANGED warnings
    /\ UNCHANGED <<cache, served, net, calls, search_term, categories,
                   category_data, df, metrics, fig_treemap, px_data,
                   rendered, errors>>

\* category_data = fetch_category_data(selected_id); if category_data: ...
FetchCategoryData ==
    /\ pc = "fetch_category_data"
    /\ \E answer \in MarketResponses :
         LET r == CachedCall(selected_id, answer)
         IN  /\ cache' = [cache EXCEPT ![selected_id] = r.entry]
             /\ served' = Serve(selected_id, r)
             /\ net' = r.requests
             /\ category_data' = r.val
             /\ errors' = errors \cup (IF r.val.ok THEN {} ELSE {E_Data})
             /\ df' = IF Truthy(r.val) THEN r.val.body ELSE df
             /\ pc' = IF Truthy(r.val) THEN "metrics" ELSE "done"
    /\ calls' = calls \cup {"fetch_category_data"}
    /\ UNCHANGED <<search_term, categories, filtered_categories,
                   selected_category, selected_id, metrics, fig_treemap,
                   px_data, rendered, warnings>>

\* metrics = safe_metrics(df) and the four st.metric tiles
Metrics ==
    /\ pc = "metrics"
    /\ LET r == safe_metrics(df)
       IN  /\ metrics' = r.summary
           /\ warnings' = warnings \cup r.warning
    /\ rendered' = rendered \cup {"tiles"}
    /\ pc' = "treemap"
    /\ UNCHANGED <<cache, served, net, calls, search_term, categories,
                   filtered_categories, selected_category, selected_id,
                   category_data, df, fig_treemap, px_data, errors>>

\* where main() goes on after the treemap: "if not df.empty:"
AfterTreemap == IF Empty(df) THEN "done" ELSE "histogram"

\* fig_treemap = safe_treemap(df, selected_category)
Treemap ==
    /\ pc = "treemap"
    /\ LET r == safe_treemap(df)
       IN  /\ fig_treemap' = r.fig
           /\ px_data' = [px_data EXCEPT !.treemap = r.px]
           /\ warnings' = warnings \cup r.warning
           /\ pc' = IF r.fig THEN "show_treemap" ELSE AfterTreemap
    /\ UNCHANGED <<cache, served, net, calls, search_term, categories,
                   filtered_categories, selected_category, selected_id,
                   category_data, df, metrics, rendered, errors>>

\* st.plotly_chart(fig_treemap, ...): outside any try block, so an
\* exception of the display call ends the run
ShowTreemap ==
    /\ pc = "show_treemap"
    /\ \E displayed \in BOOLEAN :
         IF displayed
         THEN /\ rendered' = rendered \cup {"treemap"}
              /\ pc' = AfterTreemap
         ELSE /\ pc' = "crashed"
              /\ UNCHANGED rendered
    /\ UNCHANGED <<cache, served, net, calls, search_term, categories,
                   filtered_categories, selected_category, selected_id,
                   category_data, df, metrics, fig_treemap, px_data,
                   warnings, errors>>

\* The histogram block: KeyError when the frame has no 24h-change column;
\* an exception of px.histogram or st.plotly_chart is caught by the block.
Histogram ==
    /\ pc = "histogram"
    /\ IF ~HasColumn(df, "price_change_percentage_24h")
       THEN /\ warnings' = warnings \cup {W_HistFailed}
            /\ UNCHANGED <<px_data, rendered>>
       ELSE /\ px_data' = [px_data EXCEPT
                              !.histogram = Call(SelectSeq(df, HistMask))]
            /\ \E displayed \in BOOLEAN :
                 IF displayed
                 THEN /\ rendered' = rendered \cup {"histogram"}
                      /\ UNCHANGED warnings
                 ELSE /\ warnings' = warnings \cup {W_HistFailed}
                      /\ UNCHANGED rendered
    /\ pc' = "scatter"
    /\ UNCHANGED <<cache, served, net, calls, search_term, categories,
                   filtered_categories, selected_category, selected_id,
                   category_data, df, metrics, fig_treemap, errors>>

\* The scatter block: KeyError when a masked column is missing, ValueError
\* from px.scatter when the color column is; both are caught by the block.
Scatter ==
    /\ pc = "scatter"
    /\ IF ~HasColumn(df, "market_cap") \/ ~HasColumn(df, "total_volume")
       THEN /\ warnings' = warnings \cup {W_ScatterFailed}
            /\ UNCHANGED <<px_data, rendered>>
       ELSE LET df_filtered == SelectSeq(df, ScatterMask)
            IN  IF Empty(df_filtered)
                THEN /\ warnings' = warnings \cup {W_ScatterNoData}
                     /\ UNCHANGED <<px_data, rendered>>
                ELSE /\ px_data' = [px_data EXCEPT
                                       !.scatter = Call(df_filtered)]
                     /\ IF ~HasColumn(df, "price_change_percentage_24h")
                        THEN /\ warnings' = warnings \cup {W_ScatterFailed}
                             /\ UNCHANGED rendered
                        ELSE \E displayed \in BOOLEAN :
                               IF displayed
                               THEN /\ rendered' = rendered \cup {"scatter"}
                                    /\ UNCHANGED warnings
                               ELSE /\ warnings' =
                                          warnings \cup {W_ScatterFailed}
                                    /\ UNCHANGED rendered
    /\ pc' = "done"
    /\ UNCHANGED <<cache, served, net, calls, search_term, categories,
                   filtered_categories, selected_category, selected_id,
                   category_data, df, metrics, fig_treemap, errors>>

\* Time passes.
Tick ==
    /\ \E d \in TickSteps :
         /\ cache' = [k \in Keys |-> Older(cache[k], d, Ttl(k))]
         /\ served' = [k \in Keys |-> Older(served[k], d, Ttl(k))]
    /\ UNCHANGED <<pc, net, calls, search_term, categories,
                   filtered_categories, selected_category, selected_id,
                   category_data, df, metrics, fig_treemap, px_data,
                   rendered, warnings, errors>>

Next ==
    \/ StartRun
    \/ FetchCategories
    \/ Sidebar
    \/ FetchCategoryData
    \/ Metrics
    \/ Treemap
    \/ ShowTreemap
    \/ Histogram
    \/ Scatter
    \/ Tick

Spec == Init /\ [][Next]_vars


----------------------------------------------------------------------------
(* safe_metrics on its own: every table of the bounded set is an input.    *)

InitMetrics ==
    /\ pc = "call"
    /\ cache = [k \in Keys |-> NoEntry]
    /\ served = [k \in Keys |-> NoEntry]
    /\ net = <<>>
    /\ calls = {}
    /\ search_term = <<>>
    /\ categories = Failure
    /\ filtered_categories = <<>>
    /\ selected_category = <<>>
    /\ selected_id = ""
    /\ category_data = Failure
    /\ df \in Tables
    /\ metrics = ZeroSummary
    /\ fig_treemap = FALSE
    /\ px_data = NoPx
    /\ rendered = {}
    /\ warnings = {}
    /\ errors = {}

CallSafeMetrics ==
    /\ pc = "call"
    /\ LET r == safe_metrics(df)
       IN  /\ metrics' = r.summary
           /\ warnings' = warnings \cup r.warning
    /\ pc' = "returned"
    /\ UNCHANGED <<cache, served, net, calls, search_term, categories,
                   filtered_categories, selected_category, selected_id,
                   category_data, df, fig_treemap, px_data, rendered, errors>>

NextMetrics == CallSafeMetrics

SpecMetrics == InitMetrics /\ [][NextMetrics]_vars

----------------------------------------------------------------------------
(* The render of a non-empty market response: main() from                  *)
(* "df = pd.DataFrame(category_data)" on, for every table of the set.      *)

InitRender ==
    /\ pc = "metrics"
    /\ df \in RenderTables
    /\ category_data = Ok(df)
    /\ cache = [k \in Keys |->
                  IF k = CategoriesKey THEN Entry(Ok(Catalog))
                  ELSE IF k = DeFi.category_id THEN Entry(Ok(df))
                  ELSE NoEntry]
    /\ served = cache
    /\ net = <<DeFi.category_id>>
    /\ calls = {"fetch_categories", "fetch_category_data"}
    /\ search_term = <<>>
    /\ categories = Ok(Catalog)
    /\ filtered_categories = Catalog
    /\ selected_category = DeFi.name
    /\ selected_id = DeFi.category_id
    /\ metrics = ZeroSummary
    /\ fig_treemap = FALSE
    /\ px_data = NoPx
    /\ rendered = {}
    /\ warnings = {}
    /\ errors = {}

NextRender ==
    \/ Metrics
    \/ Treemap
    \/ ShowTreemap
    \/ Histogram
    \/ Scatter

SpecRender == InitRender /\ [][NextRender]_vars

----------------------------------------------------------------------------
(* The sidebar on its own: every catalog and every search text of the      *)
(* bounded sets.                                                           *)

TermChars == {"N", "f", "t", ".", "("}
SearchTexts == SeqUpTo(TermChars, MaxTermLen)
Catalogs == SeqUpTo(Categories, MaxCatalog) \ {<<>>}

InitSearch ==
    /\ pc = "filter"
    /\ categories \in {Ok(c) : c \in Catalogs}
    /\ search_term \in {Lower(t) : t \in SearchTexts}
    /\ cache = [k \in Keys |->
                  IF k = CategoriesKey THEN Entry(categories) ELSE NoEntry]
    /\ served = cache
    /\ net = <<CategoriesKey>>
    /\ calls = {"fetch_categories"}
    /\ filtered_categories = <<>>
    /\ selected_category = <<>>
    /\ selected_id = ""
    /\ category_data = Failure
    /\ df = <<>>
    /\ metrics = ZeroSummary
    /\ fig_treemap = FALSE
    /\ px_data = NoPx
    /\ rendered = {}
    /\ warnings = {}
    /\ errors = {}

NextSearch == Sidebar

SpecSearch == InitSearch /\ [][NextSearch]_vars


----------------------------------------------------------------------------
(* The claims.                                                             *)

Summary == {"total_tokens", "total_market_cap", "total_volume", "avg_24h_change"}

\* the rows of t whose field f holds a number
Present(t, f) == {i \in 1..Len(t) : t[i][f].kind = "num"}

RECURSIVE SumOver(_, _, _)
SumOver(t, f, I) ==
    IF I = {} THEN 0
    ELSE LET i == CHOOSE j \in I : TRUE
         IN  t[i][f].val + SumOver(t, f, I \ {i})

\* v is the mean of field f over the rows that hold a number, 0 if none does
IsMeanOfPresent(v, t, f) ==
    LET I == Present(t, f)
    IN  /\ ~v.nan
        /\ IF I = {} THEN v.num = 0
           ELSE v.num * Cardinality(I) = SumOver(t, f, I) * v.den

\* v is the sum of field f over the rows that hold a number
IsSumOfPresent(v, t, f) ==
    ~v.nan /\ v.den = 1 /\ v.num = SumOver(t, f, Present(t, f))

AllColumns(t) == \A f \in Fields : \E i \in 1..Len(t) : t[i][f].kind # "absent"

Positive(c) == c.kind = "num" /\ c.val > 0

Range(q) == {q[i] : i \in 1..Len(q)}

\* rows holds exactly the records of t that are in K, each as often as t
ExactlyThoseRows(rows, t, K) ==
    \A r \in Range(t) \cup Range(rows) :
        Cardinality({i \in 1..Len(rows) : rows[i] = r})
          = IF r \in K THEN Cardinality({i \in 1..Len(t) : t[i] = r}) ELSE 0

TreemapWarnings == {W_TreemapNoData, W_TreemapFailed}
HistWarnings == {W_HistFailed}
ScatterWarnings == {W_ScatterNoData, W_ScatterFailed}

\* C1: when the catalog fetch succeeds, a category is selected and the
\* market fetch answers an empty list, the finished run shows the four tiles
\* with zero values and a "no data" notice for each of the three charts.
C1_EmptyCategoryRendersZeros ==
    (/\ pc \in {"done", "crashed"}
     /\ "fetch_category_data" \in calls
     /\ category_data = Ok(<<>>))
    => /\ pc = "done"
       /\ "tiles" \in rendered
       /\ metrics = ZeroSummary
       /\ warnings \cap TreemapWarnings # {}
       /\ warnings \cap HistWarnings # {}
       /\ warnings \cap ScatterWarnings # {}

\* C2: safe_metrics returns, for every table, a summary of exactly the four
\* fields, none of them NaN; the empty table gives the all-zero summary.
C2_SummaryAlwaysDefined ==
    pc = "returned" =>
        /\ DOMAIN metrics = Summary
        /\ \A k \in Summary : ~metrics[k].nan
        /\ (df = <<>> => \A k \in Summary : metrics[k].num = 0)

\* C2 witness: the call returned for a table whose 24h changes are all
\* missing although the column is there (the mean is NaN before coercion).
C2_Witness ==
    /\ pc = "returned"
    /\ Len(df) > 0
    /\ AllColumns(df)
    /\ Present(df, "price_change_percentage_24h") = {}
    /\ metrics.avg_24h_change.num = 0

\* C3 as stated: total_tokens is the number of records for every input,
\* also when another aggregate fails; all-null market caps give a total
\* market cap of 0.
C3_TokensAlwaysLen ==
    pc = "returned" =>
        /\ metrics.total_tokens.num = Len(df)
        /\ (Present(df, "market_cap") = {} => metrics.total_market_cap.num = 0)

\* C3 amended: total_tokens is the number of records whenever each of the
\* three fields is carried by at least one record (and then all-null market
\* caps give a total market cap of 0); when a field is carried by no record
\* the summary is all zero, total_tokens included.
C3_TokensLenWhenColumns ==
    pc = "returned" =>
        IF AllColumns(df)
        THEN /\ metrics.total_tokens.num = Len(df)
             /\ metrics.total_tokens.den = 1
             /\ (Present(df, "market_cap") = {}
                    => metrics.total_market_cap.num = 0)
        ELSE \A k \in Summary : metrics[k].num = 0

\* C3 witness: three records with null market caps were summarised.
C3_Witness ==
    /\ pc = "returned"
    /\ df = NullCapsExample
    /\ metrics.total_tokens.num = 3
    /\ metrics.total_market_cap.num = 0

\* C4 as stated: for every input the average is the mean of the present 24h
\* changes (0 if none) and the two totals are the sums of the present values.
C4_MeanOfPresent ==
    pc = "returned" =>
        /\ IsMeanOfPresent(metrics.avg_24h_change, df,
                           "price_change_percentage_24h")
        /\ IsSumOfPresent(metrics.total_market_cap, df, "market_cap")
        /\ IsSumOfPresent(metrics.total_volume, df, "total_volume")

\* C4 amended: the same, for the tables in which each of the three fields is
\* carried by at least one record; for the others the three values are 0.
C4_MeanOfPresentWhenColumns ==
    pc = "returned" =>
        IF AllColumns(df)
        THEN /\ IsMeanOfPresent(metrics.avg_24h_change, df,
                                "price_change_percentage_24h")
             /\ IsSumOfPresent(metrics.total_market_cap, df, "market_cap")
             /\ IsSumOfPresent(metrics.total_volume, df, "total_volume")
        ELSE /\ metrics.avg_24h_change.num = 0
             /\ metrics.total_market_cap.num = 0
             /\ metrics.total_volume.num = 0

\* C4 witness: changes 10, null, -4 were averaged to 3.
C4_Witness ==
    /\ pc = "returned"
    /\ df = MeanExample
    /\ metrics.avg_24h_change = Whole(3)

\* C5: px.treemap is handed exactly the rows with a positive market cap and
\* px.scatter exactly the rows with a positive market cap and a positive
\* volume; when there is no such row the builder is not called, nothing is
\* drawn and a warning is shown; neither filter ends the run.
C5_ChartsGetFilteredRows ==
    /\ pc \notin {"metrics", "treemap"} =>
          /\ ExactlyThoseRows(px_data.treemap.data, df,
                              {r \in Range(df) : Positive(r.market_cap)})
          /\ px_data.treemap.called <=> px_data.treemap.data # <<>>
          /\ ~px_data.treemap.called =>
                /\ ~fig_treemap
                /\ "treemap" \notin rendered
                /\ warnings \cap TreemapWarnings # {}
    /\ pc = "done" =>
          /\ ExactlyThoseRows(px_data.scatter.data, df,
                              {r \in Range(df) : /\ Positive(r.market_cap)
                                                 /\ Positive(r.total_volume)})
          /\ px_data.scatter.called <=> px_data.scatter.data # <<>>
          /\ ~px_data.scatter.called =>
                /\ "scatter" \notin rendered
                /\ warnings \cap ScatterWarnings # {}
    /\ pc = "crashed" => fig_treemap

\* C5 witness: the three-record example ended with one scatter point.
C5_Witness ==
    /\ pc = "done"
    /\ df = ScatterExample
    /\ px_data.scatter.called
    /\ Len(px_data.scatter.data) = 1
    /\ Len(px_data.treemap.data) = 1

\* C6: in a render of a non-empty response every run finishes, and each of
\* the three charts was either displayed or replaced by its own warning,
\* whatever happened to the other two.
C6_ChartsIsolated ==
    pc \in {"done", "crashed"} =>
        /\ pc = "done"
        /\ "treemap" \in rendered \/ warnings \cap TreemapWarnings # {}
        /\ "histogram" \in rendered \/ warnings \cap HistWarnings # {}
        /\ "scatter" \in rendered \/ warnings \cap ScatterWarnings # {}

\* s contains sub as a literal substring
LiteralContains(sub, s) ==
    \E start \in 0..(Len(s) - Len(sub)) :
        \A k \in 1..Len(sub) : sub[k] = s[start + k]

\* no category name contains the search term as a literal substring
NoNameContainsTerm ==
    \A i \in 1..Len(categories.body) :
        ~LiteralContains(search_term, Lower(categories.body[i].name))

\* C7: once the catalog fetch has failed, or the search term occurs in no
\* category name, the run ends with an error or a warning, never calls
\* fetch_category_data and renders no tile or chart; and the market fetch is
\* only called with the id of an offered category.
C7_NoMatchHalts ==
    /\ (/\ pc \notin {"idle", "fetch_categories"}
        /\ ~categories.ok \/ NoNameContainsTerm)
       => /\ pc \in {"filter", "done"}
          /\ "fetch_category_data" \notin calls
          /\ rendered = {}
          /\ pc = "done" => errors \cup warnings # {}
    /\ "fetch_category_data" \in calls =>
          \E i \in 1..Len(filtered_categories) :
              filtered_categories[i].category_id = selected_id

\* C8: the categories offered are exactly the catalog entries whose
\* lower-cased name contains the lower-cased search text as a literal
\* substring, for every text, punctuation included.
C8_LiteralSubstringSearch ==
    pc # "filter" =>
        /\ pc # "crashed"
        /\ filtered_categories =
              SelectSeq(categories.body,
                        LAMBDA c : LiteralContains(search_term, Lower(c.name)))

\* a call of the function at position p of main()
FetchStep(p) == pc = p /\ pc' # p

\* the API answered this key less than the key's window ago
InWindow(key) ==
    /\ served[key].present
    /\ served[key].age < (IF key = CategoriesKey THEN 3600 ELSE 300)

\* C9: a fetch call made within the window of a successful answer for its
\* key (the catalog: 1 hour; a category id: 5 minutes) returns that answer
\* and issues no request; a call for a key that has no answer within its
\* window (never asked, another id, or the window elapsed) issues a request.
C9_CacheWindows ==
    [][/\ FetchStep("fetch_categories") =>
            IF InWindow(CategoriesKey)
            THEN served[CategoriesKey].val.ok =>
                    /\ net' = <<>>
                    /\ categories' = served[CategoriesKey].val
            ELSE net' = <<CategoriesKey>>
       /\ FetchStep("fetch_category_data") =>
            IF InWindow(selected_id)
            THEN served[selected_id].val.ok =>
                    /\ net' = <<>>
                    /\ category_data' = served[selected_id].val
            ELSE net' = <<selected_id>>]_vars

\* C9 witness: a market fetch was answered from a 200 s old entry while the
\* other category had never been asked for.
C9_Witness ==
    /\ pc \in {"metrics", "done"}
    /\ "fetch_category_data" \in calls
    /\ net = <<>>
    /\ category_data.ok
    /\ cache[selected_id].age = 200
    /\ \E k \in CategoryIds : k # selected_id /\ ~served[k].present

\* C10: a fetch call made within the window of a failed answer for its key
\* returns Failure again and issues no request, and no fetch call issues
\* more than one request.
C10_FailureIsCached ==
    [][/\ (FetchStep("fetch_categories") /\ InWindow(CategoriesKey)
             /\ ~served[CategoriesKey].val.ok)
            => /\ net' = <<>>
               /\ categories' = Failure
       /\ (FetchStep("fetch_category_data") /\ InWindow(selected_id)
             /\ ~served[selected_id].val.ok)
            => /\ net' = <<>>
               /\ category_data' = Failure
       /\ (FetchStep("fetch_categories") \/ FetchStep("fetch_category_data"))
            => Len(net') <= 1]_vars

\* C10 witness: a run got the cached catalog failure, 200 s or more old,
\* without a request.
C10_Witness ==
    /\ pc = "done"
    /\ calls = {"fetch_categories"}
    /\ ~categories.ok
    /\ net = <<>>
    /\ cache[CategoriesKey].age >= 200
    /\ E_Categories \in errors

=============================================================================
